---- MODULE Spec2Model ----
(***************************************************************************)
(* Model of the imagepig client library (src/src/lib.rs).                  *)
(*                                                                         *)
(*   - APIResponse::data, the response materialization protocol: inline    *)
(*     base64 data, or a download of image_url with a retry loop.          *)
(*   - the request builders (default, xl, flux, faceswap, upscale, cutout, *)
(*     replace, outpaint), Image::prepare_image and call_api.              *)
(*                                                                         *)
(* Strings are sequences of one-character strings, byte vectors are        *)
(* sequences of integers 0..255.                                           *)
(***************************************************************************)
EXTENDS Integers, Sequences, FiniteSets

VARIABLES
    content,    \* APIResponse.content: the JSON body, a map from keys to JSON values
    pc,         \* position of data(): "start", "get" (at send().await), "body" (at
                \* bytes().await), "sleep", "done"
    attempt,    \* index of the current iteration of `for _ in 0..DOWNLOAD_ATTEMPTS`
    log,        \* the GET requests issued and the sleeps taken by data(), in order
    result,     \* what data() returned
    call,       \* the builder operation invoked, with its arguments
    trace,      \* what the operation did, in order: prepare_image calls, the POST
    outcome     \* where the operation is ("none": not called, "sent": at send().await,
                \* "received": at json().await) or how it ended ("Ok", "Err", "panic"),
                \* and the payload it posted

vars == <<content, pc, attempt, log, result, call, trace, outcome>>

dataVars == <<content, pc, attempt, log, result>>
buildVars == <<call, trace, outcome>>

---------------------------------------------------------------------------
(* Program constants *)

DOWNLOAD_ATTEMPTS == 10
DOWNLOAD_INTERRUPTION == 1

---------------------------------------------------------------------------
(* Bounds of the model *)

\* longest image_data string of a response body
MaxTextLen == 4
\* longest byte vector given as an image input
MaxImageLen == 4
\* longest string given as an image input
MaxUrlLen == 2
\* largest number of keys in an extra-parameters map
MaxExtras == 1

Strs(chars, n) == UNION {[1..k -> chars] : k \in 0..n}

---------------------------------------------------------------------------
(* JSON values (serde_json::Value), as far as the library uses them *)

JStr(s) == [t |-> "str", s |-> s, b |-> <<>>, n |-> 0]
JNum(n) == [t |-> "num", s |-> <<>>, b |-> <<>>, n |-> n]
JArr(b) == [t |-> "arr", s |-> <<>>, b |-> b, n |-> 0]

\* Value::as_str: Some only for a JSON string
IsStr(v) == v.t = "str"

\* variant of Map::insert that keeps the value of a key already there
InsertKeepExisting(m, k, v) ==
    [x \in (DOMAIN m) \cup {k} |-> IF x \in DOMAIN m THEN m[x] ELSE v]

\* Map::insert: sets the key, replacing a value already there
Insert(m, k, v) == [x \in (DOMAIN m) \cup {k} |-> IF x = k THEN v ELSE m[x]]

EmptyMap == [x \in {} |-> JNum(0)]

---------------------------------------------------------------------------
(* base64::prelude::BASE64_STANDARD.decode: the standard alphabet, canonical *)
(* padding required, non-zero trailing bits rejected                         *)

Alphabet ==
    << "A","B","C","D","E","F","G","H","I","J","K","L","M","N","O","P",
       "Q","R","S","T","U","V","W","X","Y","Z","a","b","c","d","e","f",
       "g","h","i","j","k","l","m","n","o","p","q","r","s","t","u","v",
       "w","x","y","z","0","1","2","3","4","5","6","7","8","9","+","/" >>

IsB64Char(c) == \E i \in 1..64 : Alphabet[i] = c

B64Val(c) == (CHOOSE i \in 1..64 : Alphabet[i] = c) - 1

\* number of "=" at the end of s
PadCount(s) ==
    IF \A i \in 1..Len(s) : s[i] = "="
    THEN Len(s)
    ELSE Len(s) - (CHOOSE i \in 1..Len(s) :
                      /\ s[i] # "="
                      /\ \A j \in (i+1)..Len(s) : s[j] = "=")

\* the symbols of s before its padding
Symbols(s) == SubSeq(s, 1, Len(s) - PadCount(s))

\* the bits the last symbol carries beyond the last whole byte are zero
TrailingBitsZero(d) ==
    CASE Len(d) % 4 = 2 -> B64Val(d[Len(d)]) % 16 = 0
      [] Len(d) % 4 = 3 -> B64Val(d[Len(d)]) % 4 = 0
      [] OTHER -> TRUE

DecodeOk(s) ==
    /\ Len(s) % 4 = 0
    /\ PadCount(s) <= 2
    /\ \A i \in 1..Len(Symbols(s)) : IsB64Char(Symbols(s)[i])
    /\ TrailingBitsZero(Symbols(s))

\* byte j of the decoded output of the symbols d
DecodedByte(d, j) ==
    LET g == 4 * ((j - 1) \div 3)
        r == (j - 1) % 3
    IN CASE r = 0 -> B64Val(d[g+1]) * 4 + (B64Val(d[g+2]) \div 16)
         [] r = 1 -> (B64Val(d[g+2]) % 16) * 16 + (B64Val(d[g+3]) \div 4)
         [] r = 2 -> (B64Val(d[g+3]) % 4) * 64 + B64Val(d[g+4])

\* the decoded bytes of a text that DecodeOk accepts
Decode(s) ==
    LET d == Symbols(s)
    IN [j \in 1..((Len(d) * 6) \div 8) |-> DecodedByte(d, j)]

---------------------------------------------------------------------------
(* Results: Result<Vec<u8>, ImagePigError> of data() *)

Ok(bytes) == [ok |-> TRUE, err |-> "", bytes |-> bytes]
Err(e) == [ok |-> FALSE, err |-> e, bytes |-> <<>>]
NoResult == [ok |-> FALSE, err |-> "none", bytes |-> <<>>]

---------------------------------------------------------------------------
(* The response bodies and the download outcomes the model draws from *)

TextChars == {"A", "B", "Q", "=", "-"}

\* a value of image_data or image_url: a number (not a string), or a string
DataValues == {JNum(7)} \cup {JStr(s) : s \in Strs(TextChars, MaxTextLen)}
UrlValues == {JNum(7), JStr(<<"u">>)}

Contents ==
    {EmptyMap}
    \cup {Insert(EmptyMap, "image_data", d) : d \in DataValues}
    \cup {Insert(EmptyMap, "image_url", u) : u \in UrlValues}
    \cup {Insert(Insert(EmptyMap, "image_data", d), "image_url", u) :
             d \in DataValues, u \in UrlValues}

Statuses == {200, 299, 300, 404, 500}
Bodies == {<<>>, <<104, 105>>}

\* StatusCode::is_success
is_success(status) == 200 <= status /\ status < 300

\* events of the log
GetFailed == [ev |-> "GET", sent |-> FALSE, status |-> 0, read |-> FALSE, body |-> <<>>, secs |-> 0]
GetStatus(st, rd, bd) == [ev |-> "GET", sent |-> TRUE, status |-> st, read |-> rd, body |-> bd, secs |-> 0]
Slept(secs) == [ev |-> "SLEEP", sent |-> FALSE, status |-> 0, read |-> FALSE, body |-> <<>>, secs |-> secs]

---------------------------------------------------------------------------
(* APIResponse::url and APIResponse::data *)

\* url(): the image_url of the body when it is a string
HasUrl == "image_url" \in DOMAIN content /\ IsStr(content["image_url"])

\* the image_data of the body is a string
HasData == "image_data" \in DOMAIN content /\ IsStr(content["image_data"])

Return(r) ==
    /\ result' = r
    /\ pc' = "done"

\* variant with the inclusive range 0..=DOWNLOAD_ATTEMPTS
LoopContinuesInclusive(i) == i + 1 <= DOWNLOAD_ATTEMPTS

\* the range 0..DOWNLOAD_ATTEMPTS holds an index after i
LoopContinues(i) == i + 1 < DOWNLOAD_ATTEMPTS

\* the end of an iteration of the for loop: the next one, or the fall through
\* to Err(MissingData) at the end of data()
NextIteration ==
    IF LoopContinues(attempt)
    THEN /\ attempt' = attempt + 1
         /\ pc' = "get"
         /\ UNCHANGED result
    ELSE /\ Return(Err("MissingData"))
         /\ UNCHANGED attempt

\* variant of data() that looks at image_url before image_data
DataBeginUrlFirst ==
    /\ pc = "start"
    /\ IF HasUrl
       THEN pc' = "get" /\ UNCHANGED result
       ELSE IF HasData
            THEN LET s == content["image_data"].s
                 IN Return(IF DecodeOk(s) THEN Ok(Decode(s)) ELSE Err("UnexpectedResponse"))
            ELSE Return(Err("MissingData"))
    /\ UNCHANGED <<content, attempt, log>>

\* data() up to its first await: the inline image_data, or the way into the
\* download loop, or MissingData
DataBegin ==
    /\ pc = "start"
    /\ IF HasData
       THEN LET s == content["image_data"].s
            IN Return(IF DecodeOk(s) THEN Ok(Decode(s)) ELSE Err("UnexpectedResponse"))
       ELSE IF HasUrl
            THEN pc' = "get" /\ UNCHANGED result
            ELSE Return(Err("MissingData"))
    /\ UNCHANGED <<content, attempt, log>>

\* variant in which a failed send breaks out of the loop
GetTransportErrorBreaks ==
    /\ pc = "get"
    /\ log' = Append(log, GetFailed)
    /\ Return(Err("MissingData"))
    /\ UNCHANGED <<content, attempt>>

\* the send of one GET fails: `if let Ok(resp)` does not match, nothing is
\* done and the loop goes on to its next iteration
GetTransportError ==
    /\ pc = "get"
    /\ log' = Append(log, GetFailed)
    /\ NextIteration
    /\ UNCHANGED content

\* send().await resumes with a 2xx status: data() calls resp.bytes() and is
\* suspended again, the body not read yet
GetSuccess ==
    /\ pc = "get"
    /\ \E st \in Statuses :
          /\ is_success(st)
          /\ log' = Append(log, GetStatus(st, FALSE, <<>>))
    /\ pc' = "body"
    /\ UNCHANGED <<content, attempt, result>>

\* resp.bytes().await resumes: the body is returned, or reading it failed and
\* data() returns HttpError; the log keeps the body with its GET
ReadBody ==
    /\ pc = "body"
    /\ \E bd \in Bodies, rd \in BOOLEAN :
          /\ log' = [log EXCEPT ![Len(log)] =
                        GetStatus(log[Len(log)].status, rd, IF rd THEN bd ELSE <<>>)]
          /\ Return(IF rd THEN Ok(bd) ELSE Err("HttpError"))
    /\ UNCHANGED <<content, attempt>>

\* one GET gets status 404: data() goes to sleep
GetNotFound ==
    /\ pc = "get"
    /\ \E st \in Statuses :
          /\ ~is_success(st)
          /\ st = 404
          /\ log' = Append(log, GetStatus(st, FALSE, <<>>))
    /\ pc' = "sleep"
    /\ UNCHANGED <<content, attempt, result>>

\* variant in which every status that is not 2xx is slept on and retried
GetOtherStatusRetries ==
    /\ pc = "get"
    /\ \E st \in Statuses :
          /\ ~is_success(st)
          /\ st # 404
          /\ log' = Append(log, GetStatus(st, FALSE, <<>>))
    /\ pc' = "sleep"
    /\ UNCHANGED <<content, attempt, result>>

\* one GET gets a status that is neither 2xx nor 404: break
GetOtherStatus ==
    /\ pc = "get"
    /\ \E st \in Statuses :
          /\ ~is_success(st)
          /\ st # 404
          /\ log' = Append(log, GetStatus(st, FALSE, <<>>))
    /\ Return(Err("MissingData"))
    /\ UNCHANGED <<content, attempt>>

\* variant that retries after a 404 without sleeping
SleepSkipped ==
    /\ pc = "sleep"
    /\ UNCHANGED log
    /\ NextIteration
    /\ UNCHANGED content

\* the sleep of DOWNLOAD_INTERRUPTION seconds after a 404, then the next iteration
Sleep ==
    /\ pc = "sleep"
    /\ log' = Append(log, Slept(DOWNLOAD_INTERRUPTION))
    /\ NextIteration
    /\ UNCHANGED content

---------------------------------------------------------------------------
(* Arguments of the builder operations *)

\* Option<T>
NoneStr == [some |-> FALSE, v |-> <<>>]
SomeStr(s) == [some |-> TRUE, v |-> s]
NoneNum == [some |-> FALSE, v |-> 0]
SomeNum(n) == [some |-> TRUE, v |-> n]
NoneEnum == [some |-> FALSE, v |-> ""]
SomeEnum(e) == [some |-> TRUE, v |-> e]
NoneMap == [some |-> FALSE, v |-> EmptyMap]
SomeMap(m) == [some |-> TRUE, v |-> m]

\* Option::unwrap_or_default, Option::unwrap_or
UnwrapOr(opt, default) == IF opt.some THEN opt.v ELSE default

\* an image input: a &str, or a Vec<u8> given by the text its bytes spell
ImgStr(s) == [t |-> "str", s |-> s, b |-> <<>>]
ImgBytes(b) == [t |-> "bytes", s |-> <<>>, b |-> b]
NoImage == [t |-> "none", s |-> <<>>, b |-> <<>>]

UrlChars == {"a", "1", ":"}
ImageChars == {"Q", "="}

StrImages == {ImgStr(s) : s \in Strs(UrlChars, MaxUrlLen)}
ByteImages == {ImgBytes(b) : b \in Strs(ImageChars, MaxImageLen)}
Images == StrImages \cup ByteImages

PositivePrompts == {<<"p">>}
NegativePrompts == {NoneStr, SomeStr(<<>>), SomeStr(<<"n">>)}
Proportions == {"Landscape", "Portrait", "Square", "Wide"}
UpscalingFactors == {"Two", "Four", "Eight"}
Margins == {NoneNum, SomeNum(3)}

ExtraKeys ==
    {"image_url", "image_data", "source_image_data", "target_image_url",
     "positive_prompt", "negative_prompt", "proportion", "upscaling_factor",
     "top", "seed"}
ExtraValue == JStr(<<"x">>)
ExtraMaps ==
    {[k \in S |-> ExtraValue] : S \in {S \in SUBSET ExtraKeys : Cardinality(S) <= MaxExtras}}
Extras == {NoneMap} \cup {SomeMap(m) : m \in ExtraMaps}

---------------------------------------------------------------------------
(* Proportion and UpscalingFactor *)

\* the Debug name of a Proportion
DebugName(p) ==
    CASE p = "Landscape" -> <<"L","a","n","d","s","c","a","p","e">>
      [] p = "Portrait" -> <<"P","o","r","t","r","a","i","t">>
      [] p = "Square" -> <<"S","q","u","a","r","e">>
      [] p = "Wide" -> <<"W","i","d","e">>

\* str::to_lowercase on ASCII letters: Alphabet holds A..Z at 1..26, a..z at 27..52
ToLowercase(s) ==
    [i \in 1..Len(s) |->
        IF \E j \in 1..26 : Alphabet[j] = s[i]
        THEN Alphabet[(CHOOSE j \in 1..26 : Alphabet[j] = s[i]) + 26]
        ELSE s[i]]

\* Display for Proportion
ProportionToString(p) == ToLowercase(DebugName(p))

\* UpscalingFactor as u8
FactorAsU8(f) ==
    CASE f = "Two" -> 2
      [] f = "Four" -> 4
      [] f = "Eight" -> 8

---------------------------------------------------------------------------
(* Image::prepare_image *)

AsciiAlpha == {Alphabet[i] : i \in 1..52}
SchemeChars == {Alphabet[i] : i \in 1..62} \cup {"+", "-", "."}

\* Url::parse(s).is_ok(): s starts with a scheme (a letter, then letters,
\* digits, +, - or .) and a colon. The strings of the model have schemes that
\* are not special (not http, https, ws, wss, ftp, file), for which whatever
\* the model's characters spell after the colon parses as an opaque path.
UrlParseIsOk(s) ==
    /\ Len(s) >= 2
    /\ s[1] \in AsciiAlpha
    /\ \E k \in 2..Len(s) :
          /\ s[k] = ":"
          /\ \A j \in 2..(k-1) : s[j] \in SchemeChars

PrepOk(params) == [ok |-> TRUE, err |-> "", arg |-> <<>>, params |-> params]
PrepErr(e, arg, params) == [ok |-> FALSE, err |-> e, arg |-> arg, params |-> params]

\* impl Image for &str
PrepareStr(s, param_name, params) ==
    IF UrlParseIsOk(s)
    THEN PrepOk(Insert(params, param_name \o "_url", JStr(s)))
    ELSE PrepErr("InvalidUrl", s, params)

\* impl Image for Vec<u8>
PrepareBytes(b, param_name, params) ==
    IF DecodeOk(b)
    THEN PrepOk(Insert(params, param_name \o "_data", JArr(Decode(b))))
    ELSE PrepErr("InvalidInput", <<>>, params)

prepare_image(image, param_name, params) ==
    IF image.t = "str"
    THEN PrepareStr(image.s, param_name, params)
    ELSE PrepareBytes(image.b, param_name, params)

---------------------------------------------------------------------------
(* The builder operations of ImagePig and call_api *)

NoCall ==
    [op |-> "none", image |-> NoImage, target |-> NoImage,
     prompt |-> <<>>, select |-> <<>>, negative |-> NoneStr,
     proportion |-> NoneEnum, factor |-> NoneEnum,
     top |-> NoneNum, right |-> NoneNum, bottom |-> NoneNum, left |-> NoneNum,
     extras |-> NoneMap]

\* events of the trace
Prepared(param_name, ok) == [ev |-> "prepare", name |-> param_name, ok |-> ok]
Posted(endpoint) == [ev |-> "POST", name |-> endpoint, ok |-> TRUE]
PanicEvent == [ev |-> "panic", name |-> "", ok |-> FALSE]

NoOutcome == [kind |-> "none", err |-> "", arg |-> <<>>, endpoint |-> "", payload |-> EmptyMap]

\* call_api up to send().await: the POST of the payload is issued and the
\* operation is suspended
call_api(tr, endpoint, payload) ==
    /\ trace' = Append(tr, Posted(endpoint))
    /\ outcome' = [kind |-> "sent", err |-> "", arg |-> <<>>,
                   endpoint |-> endpoint, payload |-> payload]

\* call_api, send().await resumes: the send failed and the operation returns
\* HttpError, or a response came (its status is not looked at) and
\* response.json() is awaited
SendReturns ==
    /\ outcome.kind = "sent"
    /\ \E sent \in BOOLEAN :
          outcome' = IF sent
                     THEN [outcome EXCEPT !.kind = "received"]
                     ELSE [outcome EXCEPT !.kind = "Err", !.err = "HttpError"]
    /\ UNCHANGED <<call, trace>>
    /\ UNCHANGED dataVars

\* call_api, json().await resumes: the body is JSON and an APIResponse is
\* returned, or it is not and the operation returns UnexpectedResponse
JsonReturns ==
    /\ outcome.kind = "received"
    /\ \E json \in BOOLEAN :
          outcome' = IF json
                     THEN [outcome EXCEPT !.kind = "Ok"]
                     ELSE [outcome EXCEPT !.kind = "Err", !.err = "UnexpectedResponse"]
    /\ UNCHANGED <<call, trace>>
    /\ UNCHANGED dataVars

\* Result::unwrap on the Err of prepare_image: the operation panics
UnwrapPanics(tr, r) ==
    /\ trace' = Append(tr, PanicEvent)
    /\ outcome' = [kind |-> "panic", err |-> r.err, arg |-> r.arg,
                   endpoint |-> "", payload |-> EmptyMap]

\* variant that sends negative_prompt only when the caller gave one
InsertNegativeIfSome(params, negative) ==
    IF negative.some THEN Insert(params, "negative_prompt", JStr(negative.v)) ELSE params

\* params.insert("negative_prompt", negative_prompt.unwrap_or_default())
InsertNegative(params, negative) ==
    Insert(params, "negative_prompt", JStr(UnwrapOr(negative, <<>>)))

default ==
    /\ call.op = "none"
    /\ \E prompt \in PositivePrompts, negative \in NegativePrompts, extra \in Extras :
          LET p0 == UnwrapOr(extra, EmptyMap)
              p1 == Insert(p0, "positive_prompt", JStr(prompt))
              p2 == InsertNegative(p1, negative)
          IN /\ call' = [NoCall EXCEPT !.op = "default", !.prompt = prompt,
                                       !.negative = negative, !.extras = extra]
             /\ call_api(<<>>, "", p2)
    /\ UNCHANGED dataVars

xl ==
    /\ call.op = "none"
    /\ \E prompt \in PositivePrompts, negative \in NegativePrompts, extra \in Extras :
          LET p0 == UnwrapOr(extra, EmptyMap)
              p1 == Insert(p0, "positive_prompt", JStr(prompt))
              p2 == InsertNegative(p1, negative)
          IN /\ call' = [NoCall EXCEPT !.op = "xl", !.prompt = prompt,
                                       !.negative = negative, !.extras = extra]
             /\ call_api(<<>>, "xl", p2)
    /\ UNCHANGED dataVars

flux ==
    /\ call.op = "none"
    /\ \E prompt \in PositivePrompts, extra \in Extras,
          proportion \in {NoneEnum} \cup {SomeEnum(p) : p \in Proportions} :
          LET p0 == UnwrapOr(extra, EmptyMap)
              p1 == Insert(p0, "positive_prompt", JStr(prompt))
              p2 == Insert(p1, "proportion",
                           JStr(ProportionToString(UnwrapOr(proportion, "Landscape"))))
          IN /\ call' = [NoCall EXCEPT !.op = "flux", !.prompt = prompt,
                                       !.proportion = proportion, !.extras = extra]
             /\ call_api(<<>>, "flux", p2)
    /\ UNCHANGED dataVars

\* faceswap<T: Image>: both images are of the one type T
FaceswapArgs ==
    {<<s, t>> \in Images \X Images : s.t = t.t}

\* variant of faceswap that does not unwrap the result of the target image
faceswapIgnoresTargetError ==
    /\ call.op = "none"
    /\ \E st \in FaceswapArgs, extra \in Extras :
          LET p0 == UnwrapOr(extra, EmptyMap)
              r1 == prepare_image(st[1], "source_image", p0)
              r2 == prepare_image(st[2], "target_image", r1.params)
              tr1 == <<Prepared("source_image", r1.ok)>>
              tr2 == Append(tr1, Prepared("target_image", r2.ok))
          IN /\ call' = [NoCall EXCEPT !.op = "faceswap", !.image = st[1],
                                       !.target = st[2], !.extras = extra]
             /\ IF ~r1.ok THEN UnwrapPanics(tr1, r1)
                ELSE call_api(tr2, "faceswap", r2.params)
    /\ UNCHANGED dataVars

\* faceswap: source_image, then target_image, each unwrapped, then the POST
faceswap ==
    /\ call.op = "none"
    /\ \E st \in FaceswapArgs, extra \in Extras :
          LET p0 == UnwrapOr(extra, EmptyMap)
              r1 == prepare_image(st[1], "source_image", p0)
              r2 == prepare_image(st[2], "target_image", r1.params)
              tr1 == <<Prepared("source_image", r1.ok)>>
              tr2 == Append(tr1, Prepared("target_image", r2.ok))
          IN /\ call' = [NoCall EXCEPT !.op = "faceswap", !.image = st[1],
                                       !.target = st[2], !.extras = extra]
             /\ IF ~r1.ok THEN UnwrapPanics(tr1, r1)
                ELSE IF ~r2.ok THEN UnwrapPanics(tr2, r2)
                ELSE call_api(tr2, "faceswap", r2.params)
    /\ UNCHANGED dataVars

upscale ==
    /\ call.op = "none"
    /\ \E image \in Images, extra \in Extras,
          factor \in {NoneEnum} \cup {SomeEnum(f) : f \in UpscalingFactors} :
          LET p0 == UnwrapOr(extra, EmptyMap)
              r == prepare_image(image, "image", p0)
              tr == <<Prepared("image", r.ok)>>
              p1 == Insert(r.params, "upscaling_factor",
                           JNum(FactorAsU8(UnwrapOr(factor, "Two"))))
          IN /\ call' = [NoCall EXCEPT !.op = "upscale", !.image = image,
                                       !.factor = factor, !.extras = extra]
             /\ IF ~r.ok THEN UnwrapPanics(tr, r)
                ELSE call_api(tr, "upscale", p1)
    /\ UNCHANGED dataVars

cutout ==
    /\ call.op = "none"
    /\ \E image \in Images, extra \in Extras :
          LET p0 == UnwrapOr(extra, EmptyMap)
              r == prepare_image(image, "image", p0)
              tr == <<Prepared("image", r.ok)>>
          IN /\ call' = [NoCall EXCEPT !.op = "cutout", !.image = image,
                                       !.extras = extra]
             /\ IF ~r.ok THEN UnwrapPanics(tr, r)
                ELSE call_api(tr, "cutout", r.params)
    /\ UNCHANGED dataVars

replace ==
    /\ call.op = "none"
    /\ \E image \in Images, select \in {<<"s">>}, prompt \in PositivePrompts,
          negative \in NegativePrompts, extra \in Extras :
          LET p0 == UnwrapOr(extra, EmptyMap)
              r == prepare_image(image, "image", p0)
              tr == <<Prepared("image", r.ok)>>
              p1 == Insert(r.params, "select_prompt", JStr(select))
              p2 == Insert(p1, "positive_prompt", JStr(prompt))
              p3 == InsertNegative(p2, negative)
          IN /\ call' = [NoCall EXCEPT !.op = "replace", !.image = image,
                                       !.select = select, !.prompt = prompt,
                                       !.negative = negative, !.extras = extra]
             /\ IF ~r.ok THEN UnwrapPanics(tr, r)
                ELSE call_api(tr, "replace", p3)
    /\ UNCHANGED dataVars

outpaint ==
    /\ call.op = "none"
    /\ \E image \in Images, prompt \in PositivePrompts, negative \in NegativePrompts,
          top \in Margins, right \in Margins, bottom \in Margins, left \in Margins,
          extra \in Extras :
          LET p0 == UnwrapOr(extra, EmptyMap)
              r == prepare_image(image, "image", p0)
              tr == <<Prepared("image", r.ok)>>
              p1 == Insert(r.params, "positive_prompt", JStr(prompt))
              p2 == InsertNegative(p1, negative)
              p3 == Insert(p2, "top", JNum(UnwrapOr(top, 0)))
              p4 == Insert(p3, "right", JNum(UnwrapOr(right, 0)))
              p5 == Insert(p4, "bottom", JNum(UnwrapOr(bottom, 0)))
              p6 == Insert(p5, "left", JNum(UnwrapOr(left, 0)))
          IN /\ call' = [NoCall EXCEPT !.op = "outpaint", !.image = image,
                                       !.prompt = prompt, !.negative = negative,
                                       !.top = top, !.right = right,
                                       !.bottom = bottom, !.left = left,
                                       !.extras = extra]
             /\ IF ~r.ok THEN UnwrapPanics(tr, r)
                ELSE call_api(tr, "outpaint", p6)
    /\ UNCHANGED dataVars

---------------------------------------------------------------------------
(* Specifications *)

\* a response handle on which data() is called
DataInit ==
    /\ content \in Contents
    /\ pc = "start"
    /\ attempt = 0
    /\ log = <<>>
    /\ result = NoResult
    /\ call = NoCall
    /\ trace = <<>>
    /\ outcome = NoOutcome

DataNext ==
    \/ DataBegin /\ UNCHANGED buildVars
    \/ GetTransportError /\ UNCHANGED buildVars
    \/ GetSuccess /\ UNCHANGED buildVars
    \/ ReadBody /\ UNCHANGED buildVars
    \/ GetNotFound /\ UNCHANGED buildVars
    \/ GetOtherStatus /\ UNCHANGED buildVars
    \/ Sleep /\ UNCHANGED buildVars

\* one call of data(), from its start to its return
DataSpec == DataInit /\ [][DataNext]_vars

\* data() runs on: an await of it is resumed
DataFair == DataSpec /\ WF_vars(DataNext)

\* a client on which no operation was called yet, and no data() under way
BuildInit ==
    /\ call = NoCall
    /\ trace = <<>>
    /\ outcome = NoOutcome
    /\ content = EmptyMap
    /\ pc = "done"
    /\ attempt = 0
    /\ log = <<>>
    /\ result = NoResult

BuildNext ==
    \/ default
    \/ xl
    \/ flux
    \/ faceswap
    \/ upscale
    \/ cutout
    \/ replace
    \/ outpaint
    \/ SendReturns
    \/ JsonReturns

\* one operation of the client, from its call through its awaits to its return
BuildSpec == BuildInit /\ [][BuildNext]_vars

---------------------------------------------------------------------------
(* What the log shows *)

IsGet(e) == e.ev = "GET"
IsSleep(e) == e.ev = "SLEEP"
Is404(e) == e.ev = "GET" /\ e.sent /\ e.status = 404
Is2xx(e) == e.ev = "GET" /\ e.sent /\ is_success(e.status)
IsOtherStatus(e) == e.ev = "GET" /\ e.sent /\ ~is_success(e.status) /\ e.status # 404
IsTransportFailure(e) == e.ev = "GET" /\ ~e.sent

\* the GET attempts of the log, in order
Gets == SelectSeq(log, IsGet)
NumGets == Len(Gets)
NumSleeps == Len(SelectSeq(log, IsSleep))

---------------------------------------------------------------------------
(* Claims about data() *)

\* C1 as the spec states it: a transport-level failure of a GET attempt ends
\* the retry loop, no GET follows it and data() has failed with MissingData.
C1_TransportFailureStops ==
    \A i \in 1..Len(log) :
        IsTransportFailure(log[i]) =>
            /\ i = Len(log)
            /\ pc = "done"
            /\ result = Err("MissingData")

\* C1 amended: a transport-level failure of a GET attempt does not end the
\* retry loop. It uses up one of the DOWNLOAD_ATTEMPTS attempts, no sleep
\* follows it, and data() goes on to the next GET while fewer than
\* DOWNLOAD_ATTEMPTS attempts were made; data() fails with MissingData right
\* after a transport failure only when that was the last attempt.
C1_TransportFailureRetries ==
    \A i \in 1..Len(log) :
        IsTransportFailure(log[i]) =>
            /\ i < Len(log) => IsGet(log[i+1])
            /\ i = Len(log) =>
                  IF NumGets < DOWNLOAD_ATTEMPTS
                  THEN pc = "get" /\ result = NoResult
                  ELSE pc = "done" /\ result = Err("MissingData")

\* a first GET failed in transport, a second GET followed and returned the body
C1_Witness ==
    /\ Len(log) = 2
    /\ IsTransportFailure(log[1])
    /\ Is2xx(log[2])
    /\ pc = "done"
    /\ result = Ok(<<104, 105>>)

\* C2: when the first k GET attempts (0 <= k <= 9) return 404 and attempt k+1
\* returns a 2xx status with body B, data() has returned B after exactly k+1
\* GET attempts and exactly k sleeps of one second, each sleep right after a
\* 404 and before the next GET.
C2_RetryOn404 ==
    \A k \in 0..(DOWNLOAD_ATTEMPTS - 1) :
        ( /\ NumGets >= k + 1
          /\ \A j \in 1..k : Is404(Gets[j])
          /\ Is2xx(Gets[k+1])
          /\ Gets[k+1].read )
        =>
        ( /\ pc = "done"
          /\ result = Ok(Gets[k+1].body)
          /\ NumGets = k + 1
          /\ NumSleeps = k
          /\ Len(log) = 2 * k + 1
          /\ \A j \in 1..k : Is404(log[2*j - 1]) /\ log[2*j] = Slept(1)
          /\ log[2*k + 1] = Gets[k+1] )

\* nine 404s, nine sleeps, and the tenth GET returns the body
C2_Witness ==
    /\ NumGets = DOWNLOAD_ATTEMPTS
    /\ \A j \in 1..(DOWNLOAD_ATTEMPTS - 1) : Is404(Gets[j])
    /\ Is2xx(Gets[DOWNLOAD_ATTEMPTS])
    /\ NumSleeps = DOWNLOAD_ATTEMPTS - 1
    /\ pc = "done"
    /\ result = Ok(<<104, 105>>)

\* C3: a GET attempt that returns a status that is neither 2xx nor 404 is the
\* last event of data(): no GET and no sleep follows, and data() has failed
\* with MissingData; a first GET returning 500 makes exactly one attempt.
C3_OtherStatusStops ==
    \A i \in 1..Len(log) :
        IsOtherStatus(log[i]) =>
            /\ i = Len(log)
            /\ pc = "done"
            /\ result = Err("MissingData")
            /\ (i = 1 => NumGets = 1 /\ NumSleeps = 0)

\* the first GET returns 500
C3_Witness ==
    /\ log = <<GetStatus(500, FALSE, <<>>)>>
    /\ pc = "done"
    /\ result = Err("MissingData")

\* what C4 says of every state: at most DOWNLOAD_ATTEMPTS GETs, and a data()
\* that ended with nothing but 404s made exactly DOWNLOAD_ATTEMPTS of them
\* and failed with MissingData
C4_AtMostTenGets ==
    /\ NumGets <= DOWNLOAD_ATTEMPTS
    /\ ( /\ pc = "done"
         /\ NumGets > 0
         /\ \A j \in 1..NumGets : Is404(Gets[j]) )
       => (NumGets = DOWNLOAD_ATTEMPTS /\ result = Err("MissingData"))

\* C4: every execution of data() terminates, having issued at most
\* DOWNLOAD_ATTEMPTS (10) GET requests whatever the outcomes of the attempts;
\* when all 10 attempts return 404 it fails with MissingData after exactly 10.
C4_Terminates == [](C4_AtMostTenGets) /\ <>(pc = "done")

\* ten GETs, all 404, and data() failed
C4_Witness ==
    /\ NumGets = DOWNLOAD_ATTEMPTS
    /\ \A j \in 1..NumGets : Is404(Gets[j])
    /\ pc = "done"
    /\ result = Err("MissingData")

\* C5: a GET is issued only when image_data is not a string and image_url is
\* a string. With a string image_data (image_url present or not) data() makes
\* no request and returns the base64-decoded bytes, or UnexpectedResponse
\* when the string is not valid base64; with neither a string it fails with
\* MissingData without a request.
C5_GetOnlyForUrlWithoutData ==
    /\ NumGets > 0 => (~HasData /\ HasUrl)
    /\ (pc = "done" /\ HasData) =>
          /\ log = <<>>
          /\ LET s == content["image_data"].s
             IN IF DecodeOk(s)
                THEN result.ok /\ result.bytes = Decode(s)
                ELSE result = Err("UnexpectedResponse")
    /\ (pc = "done" /\ ~HasData /\ ~HasUrl) =>
          (log = <<>> /\ result = Err("MissingData"))
    /\ Decode(<<"a","G","V","s","b","G","8","=">>) = <<104, 101, 108, 108, 111>>

\* a body with both a base64 image_data and an image_url: the bytes, no request
C5_Witness ==
    /\ HasData
    /\ HasUrl
    /\ content["image_data"].s = <<"Q", "Q", "=", "=">>
    /\ pc = "done"
    /\ result = Ok(<<65>>)
    /\ log = <<>>

---------------------------------------------------------------------------
(* What the trace of an operation shows *)

IsPost(e) == e.ev = "POST"
IsPrepare(e) == e.ev = "prepare"
NumPosts == Len(SelectSeq(trace, IsPost))
NumPrepares == Len(SelectSeq(trace, IsPrepare))

ImageOps == {"faceswap", "upscale", "cutout", "replace", "outpaint"}
ImageFields == {"image", "source_image", "target_image"}

\* the image input does not normalize: no absolute URL, or no valid base64
InputFails(image) ==
    IF image.t = "str" THEN ~UrlParseIsOk(image.s) ELSE ~DecodeOk(image.b)

\* the first image input of the call that does not normalize
FirstFailing ==
    IF InputFails(call.image) THEN call.image ELSE call.target

AnyInputFails ==
    /\ call.op \in ImageOps
    /\ \/ InputFails(call.image)
       \/ call.op = "faceswap" /\ InputFails(call.target)

\* the extra-parameters map of the call
ExtrasOfCall == IF call.extras.some THEN call.extras.v ELSE EmptyMap

---------------------------------------------------------------------------
(* Claims about the builder operations *)

\* C6: an image-accepting operation whose image input fails normalization
\* returns a typed failure: InvalidUrl with the offending string for a string
\* input, InvalidInput for a byte input. It does not panic.
C6_TypedFailure ==
    AnyInputFails =>
        /\ outcome.kind = "Err"
        /\ IF FirstFailing.t = "str"
           THEN outcome.err = "InvalidUrl" /\ outcome.arg = FirstFailing.s
           ELSE outcome.err = "InvalidInput"

\* C7: when an image input of an image-accepting operation fails
\* normalization, the operation issues no POST (for faceswap also when only
\* the target image fails); every prepare_image comes before the POST, and
\* there is one POST at most, after every image input was normalized.
C7_NoPostOnInvalidInput ==
    /\ AnyInputFails => NumPosts = 0
    /\ NumPosts <= 1
    /\ \A i \in 1..Len(trace), j \in 1..Len(trace) :
          (IsPost(trace[i]) /\ IsPrepare(trace[j])) => j < i
    /\ (call.op \in ImageOps /\ NumPosts = 1) =>
          /\ NumPrepares = IF call.op = "faceswap" THEN 2 ELSE 1
          /\ \A j \in 1..Len(trace) : IsPrepare(trace[j]) => trace[j].ok

\* faceswap with a source that normalizes and a target that does not: no POST
C7_Witness ==
    /\ call.op = "faceswap"
    /\ ~InputFails(call.image)
    /\ InputFails(call.target)
    /\ Len(trace) = 3
    /\ NumPosts = 0

\* C8: the parameter map an image-accepting operation sends never holds both
\* <field>_url and <field>_data for the same image field, whatever the extras.
C8_NeverBothUrlAndData ==
    (call.op \in ImageOps /\ NumPosts > 0) =>
        \A f \in ImageFields :
            ~({f \o "_url", f \o "_data"} \subseteq DOMAIN outcome.payload)

\* C9 as the spec states it: the body default, xl and flux send always holds
\* the key negative_prompt, with the empty string when the caller gave none.
C9_NegativePromptAlwaysSent ==
    (call.op \in {"default", "xl", "flux"} /\ NumPosts > 0) =>
        /\ "negative_prompt" \in DOMAIN outcome.payload
        /\ ~call.negative.some => outcome.payload["negative_prompt"] = JStr(<<>>)

\* C9 amended: the body default and xl send always holds the key
\* negative_prompt, with the caller's negative prompt, or the empty string
\* when the caller gave none. flux has no negative-prompt argument: its body
\* holds negative_prompt only when the extras hold it, with the extras' value.
C9_NegativePromptOfDefaultAndXl ==
    /\ (call.op \in {"default", "xl"} /\ NumPosts > 0) =>
          /\ "negative_prompt" \in DOMAIN outcome.payload
          /\ outcome.payload["negative_prompt"] =
                JStr(IF call.negative.some THEN call.negative.v ELSE <<>>)
    /\ (call.op = "flux" /\ NumPosts > 0) =>
          /\ "negative_prompt" \in DOMAIN outcome.payload
                <=> "negative_prompt" \in DOMAIN ExtrasOfCall
          /\ "negative_prompt" \in DOMAIN ExtrasOfCall =>
                outcome.payload["negative_prompt"] = ExtrasOfCall["negative_prompt"]

\* default without a negative prompt, the extras holding one: the empty string is sent
C9_Witness ==
    /\ call.op = "default"
    /\ ~call.negative.some
    /\ "negative_prompt" \in DOMAIN ExtrasOfCall
    /\ NumPosts = 1
    /\ outcome.payload["negative_prompt"] = JStr(<<>>)

\* the wire tokens of Proportion and UpscalingFactor
WireProportion(p) ==
    CASE p = "Landscape" -> <<"l","a","n","d","s","c","a","p","e">>
      [] p = "Portrait" -> <<"p","o","r","t","r","a","i","t">>
      [] p = "Square" -> <<"s","q","u","a","r","e">>
      [] p = "Wide" -> <<"w","i","d","e">>

WireFactor(f) == CASE f = "Two" -> 2 [] f = "Four" -> 4 [] f = "Eight" -> 8

\* the key and the value an image input is sent under
WireImage(image, field) ==
    IF image.t = "str"
    THEN <<field \o "_url", JStr(image.s)>>
    ELSE <<field \o "_data", JArr(Decode(image.b))>>

\* the builder-managed keys of the call, each with the value its explicit
\* argument, or the default of that argument, gives
Managed ==
    LET positive == <<"positive_prompt", JStr(call.prompt)>>
        negative == <<"negative_prompt",
                      JStr(IF call.negative.some THEN call.negative.v ELSE <<>>)>>
        margin(k, m) == <<k, JNum(IF m.some THEN m.v ELSE 0)>>
    IN CASE call.op \in {"default", "xl"} -> {positive, negative}
         [] call.op = "flux" ->
              {positive,
               <<"proportion",
                 JStr(WireProportion(IF call.proportion.some
                                     THEN call.proportion.v ELSE "Landscape"))>>}
         [] call.op = "faceswap" ->
              {WireImage(call.image, "source_image"),
               WireImage(call.target, "target_image")}
         [] call.op = "upscale" ->
              {WireImage(call.image, "image"),
               <<"upscaling_factor",
                 JNum(WireFactor(IF call.factor.some THEN call.factor.v ELSE "Two"))>>}
         [] call.op = "cutout" -> {WireImage(call.image, "image")}
         [] call.op = "replace" ->
              {WireImage(call.image, "image"), positive, negative,
               <<"select_prompt", JStr(call.select)>>}
         [] call.op = "outpaint" ->
              {WireImage(call.image, "image"), positive, negative,
               margin("top", call.top), margin("right", call.right),
               margin("bottom", call.bottom), margin("left", call.left)}
         [] OTHER -> {}

ManagedKeys == {kv[1] : kv \in Managed}

\* C10: whatever the extras hold, the value sent under each builder-managed
\* key is the one the explicit argument or its default gives, never the
\* extras'; and every key of the extras that is not builder-managed is sent
\* with the extras' value. Nothing else is sent.
C10_BuilderKeysWin ==
    NumPosts > 0 =>
        /\ DOMAIN outcome.payload = ManagedKeys \cup DOMAIN ExtrasOfCall
        /\ \A kv \in Managed : outcome.payload[kv[1]] = kv[2]
        /\ \A k \in (DOMAIN ExtrasOfCall) \ ManagedKeys :
              outcome.payload[k] = ExtrasOfCall[k]

\* outpaint without a top margin, the extras holding top: 0 is sent
C10_Witness ==
    /\ call.op = "outpaint"
    /\ ~call.top.some
    /\ "top" \in DOMAIN ExtrasOfCall
    /\ NumPosts = 1
    /\ outcome.payload["top"] = JNum(0)

====
